---- MODULE Spec2Model ----
(***************************************************************************)
(* Model of the DynamicRouter of package route: the routing trie           *)
(* (registerHandler, parseTree), the path tokenizer (SplitPath) and the    *)
(* dispatch pipeline (ServeHTTP with its buffering responseWrapper).       *)
(*                                                                         *)
(* A Go string is a sequence of one-character strings, so that             *)
(* strings.HasPrefix, TrimPrefix, TrimSuffix and Split are computed and    *)
(* not assumed.  A *node is named by its key path from the root mapping    *)
(* (every node is owned by exactly one children map), and a children map   *)
(* by the key path of the node that owns it (<<>> for r.root).             *)
(***************************************************************************)
EXTENDS Integers, Sequences, FiniteSets, TLC

VARIABLES
    trie,        \* r.root and every node reachable from it: key path -> node
    fileServer,  \* r.fileServer: Nil or the configured fallback
    registered,  \* history: token sequence -> what a successful call installed
    last,        \* history: the last registration call and how it ended
    nregs,       \* history: registration calls made so far
    serving,     \* the router has been handed to the transport
    reqs         \* per request: where its ServeHTTP call is, and what it did

vars == <<trie, fileServer, registered, last, nregs, serving, reqs>>

-----------------------------------------------------------------------------
(* Bounds of the model *)

MaxRegs == 2
MaxTokens == 2
MaxPathLen == 2
MaxWrites == 2

-----------------------------------------------------------------------------
(* Values *)

Nil == "nil"
Slash == "/"
Colon == ":"
Alphabet == {Slash, Colon, "a"}
\* what the application registers: a handler with its filters, or no handler
Endpoints == {[handler |-> "h1", filters |-> <<>>],
              [handler |-> "h2", filters |-> <<"f1", "f2">>],
              [handler |-> Nil, filters |-> <<>>]}
\* the routes of the served application
Routes == {[pattern |-> <<Slash, "a">>, handler |-> "h1", filters |-> <<>>],
           [pattern |-> <<Slash, "a", Slash, Colon, "x">>, handler |-> "h2",
            filters |-> <<"f1", "f2">>],
           [pattern |-> <<Slash, Colon, "x", Slash, "a">>, handler |-> "h1",
            filters |-> <<"f1">>]}
Bodies == {<<"p">>, <<"q">>}
Segments == {<<>>, <<"a">>, <<Colon, "x">>}
Reqs == {"r1"}

\* every string of at most n characters of S
RECURSIVE StringsUpTo(_, _)
StringsUpTo(S, n) ==
    IF n = 0 THEN {<<>>}
    ELSE LET shorter == StringsUpTo(S, n - 1)
         IN  shorter \cup {Append(s, c) : s \in shorter, c \in S}

Patterns == StringsUpTo(Alphabet, MaxPathLen)
TokenLists == StringsUpTo(Segments, MaxTokens)

-----------------------------------------------------------------------------
(* strings *)

HasPrefix(s, c) == Len(s) > 0 /\ s[1] = c

TrimPrefix(s, c) == IF HasPrefix(s, c) THEN Tail(s) ELSE s

TrimSuffix(s, c) ==
    IF Len(s) > 0 /\ s[Len(s)] = c THEN SubSeq(s, 1, Len(s) - 1) ELSE s

\* strings.Split(s, sep) for a one-character sep: the pieces between the
\* separators, a single piece (possibly empty) when there is none
RECURSIVE Split(_, _)
Split(s, sep) ==
    IF \A i \in 1..Len(s) : s[i] # sep THEN <<s>>
    ELSE LET i == CHOOSE k \in 1..Len(s) :
                      s[k] = sep /\ \A j \in 1..(k - 1) : s[j] # sep
         IN  <<SubSeq(s, 1, i - 1)>> \o Split(SubSeq(s, i + 1, Len(s)), sep)

\* SplitPath trimming every leading and trailing slash
RECURSIVE TrimAll(_)
TrimAll(s) ==
    IF s # <<>> /\ s[1] = Slash THEN TrimAll(Tail(s))
    ELSE IF s # <<>> /\ s[Len(s)] = Slash
         THEN TrimAll(SubSeq(s, 1, Len(s) - 1))
    ELSE s

SplitPathTrimsAll(path) == Split(TrimAll(path), Slash)

\* SplitPath without the trim of the trailing slash
SplitPathKeepsSuffix(path) == Split(TrimPrefix(path, Slash), Slash)

SplitPath(path) == Split(TrimSuffix(TrimPrefix(path, Slash), Slash), Slash)

\* strings.Join(tokens, "/")
RECURSIVE Join(_)
Join(tokens) ==
    IF Len(tokens) = 0 THEN <<>>
    ELSE IF Len(tokens) = 1 THEN tokens[1]
    ELSE tokens[1] \o <<Slash>> \o Join(Tail(tokens))

-----------------------------------------------------------------------------
(* the trie *)

EmptyNode == [handler |-> Nil, filters |-> <<>>]

\* the keys of the children map owned by `owner`
Children(t, owner) ==
    {p[Len(p)] : p \in {q \in DOMAIN t :
                          /\ Len(q) = Len(owner) + 1
                          /\ SubSeq(q, 1, Len(owner)) = owner}}

IsDynamic(key) == HasPrefix(key, Colon)

\* the panics of registerHandler, by message; NilDeref is the runtime's
HandlerNil == "handler cannot be nil"
PathNil == "path cannot be nil"
DynamicConflict == "a dynamic identifier has already been registered at that level"
DuplicateRoute == "a handler is already registered for this path"
NilDeref == "invalid memory address or nil pointer dereference"
Ok == "ok"

\* registerWalk without the scan for another dynamic key
RECURSIVE registerWalkNoCheck(_, _, _, _, _)
registerWalkNoCheck(t, owner, n, paths, i) ==
    IF i > Len(paths) THEN [trie |-> t, n |-> n, panic |-> Nil]
    ELSE LET path == paths[i] IN
         IF path = <<>> THEN registerWalkNoCheck(t, owner, n, paths, i + 1)
         ELSE LET child == Append(owner, path)
                  t2 == IF child \in DOMAIN t THEN t
                        ELSE t @@ (child :> EmptyNode)
              IN  registerWalkNoCheck(t2, child, child, paths, i + 1)

\* registerWalk whose scan also rejects the dynamic key of the same text
RECURSIVE registerWalkAnyDynamic(_, _, _, _, _)
registerWalkAnyDynamic(t, owner, n, paths, i) ==
    IF i > Len(paths) THEN [trie |-> t, n |-> n, panic |-> Nil]
    ELSE LET path == paths[i] IN
         IF path = <<>> THEN registerWalkAnyDynamic(t, owner, n, paths, i + 1)
         ELSE IF /\ IsDynamic(path)
                 /\ \E m \in Children(t, owner) : IsDynamic(m)
              THEN [trie |-> t, n |-> n, panic |-> DynamicConflict]
         ELSE LET child == Append(owner, path)
                  t2 == IF child \in DOMAIN t THEN t
                        ELSE t @@ (child :> EmptyNode)
              IN  registerWalkAnyDynamic(t2, child, child, paths, i + 1)

\* registerWalk whose scan compares with == in place of !=
RECURSIVE registerWalkSameName(_, _, _, _, _)
registerWalkSameName(t, owner, n, paths, i) ==
    IF i > Len(paths) THEN [trie |-> t, n |-> n, panic |-> Nil]
    ELSE LET path == paths[i] IN
         IF path = <<>> THEN registerWalkSameName(t, owner, n, paths, i + 1)
         ELSE IF /\ IsDynamic(path)
                 /\ \E m \in Children(t, owner) : IsDynamic(m) /\ path = m
              THEN [trie |-> t, n |-> n, panic |-> DynamicConflict]
         ELSE LET child == Append(owner, path)
                  t2 == IF child \in DOMAIN t THEN t
                        ELSE t @@ (child :> EmptyNode)
              IN  registerWalkSameName(t2, child, child, paths, i + 1)

\* registerWalk creating the child before it scans for another dynamic key
RECURSIVE registerWalkCreatesFirst(_, _, _, _, _)
registerWalkCreatesFirst(t, owner, n, paths, i) ==
    IF i > Len(paths) THEN [trie |-> t, n |-> n, panic |-> Nil]
    ELSE LET path == paths[i] IN
         IF path = <<>> THEN registerWalkCreatesFirst(t, owner, n, paths, i + 1)
         ELSE LET child == Append(owner, path)
                  t2 == IF child \in DOMAIN t THEN t
                        ELSE t @@ (child :> EmptyNode)
              IN  IF /\ IsDynamic(path)
                     /\ \E m \in Children(t2, owner) :
                            IsDynamic(m) /\ path # m
                  THEN [trie |-> t2, n |-> n, panic |-> DynamicConflict]
                  ELSE registerWalkCreatesFirst(t2, child, child, paths, i + 1)

\* registerWalk without the skip of empty tokens
RECURSIVE registerWalkKeepsEmpty(_, _, _, _, _)
registerWalkKeepsEmpty(t, owner, n, paths, i) ==
    IF i > Len(paths) THEN [trie |-> t, n |-> n, panic |-> Nil]
    ELSE LET path == paths[i] IN
         IF /\ IsDynamic(path)
            /\ \E m \in Children(t, owner) : IsDynamic(m) /\ path # m
         THEN [trie |-> t, n |-> n, panic |-> DynamicConflict]
         ELSE LET child == Append(owner, path)
                  t2 == IF child \in DOMAIN t THEN t
                        ELSE t @@ (child :> EmptyNode)
              IN  registerWalkKeepsEmpty(t2, child, child, paths, i + 1)

\* the for loop of registerHandler from token i on: `owner` names the map in
\* `children`, n the node in `n` (Nil before the first non-empty token)
RECURSIVE registerWalk(_, _, _, _, _)
registerWalk(t, owner, n, paths, i) ==
    IF i > Len(paths) THEN [trie |-> t, n |-> n, panic |-> Nil]
    ELSE LET path == paths[i] IN
         IF path = <<>> THEN registerWalk(t, owner, n, paths, i + 1)
         ELSE IF /\ IsDynamic(path)
                 /\ \E m \in Children(t, owner) : IsDynamic(m) /\ path # m
              THEN [trie |-> t, n |-> n, panic |-> DynamicConflict]
         ELSE LET child == Append(owner, path)
                  t2 == IF child \in DOMAIN t THEN t
                        ELSE t @@ (child :> EmptyNode)
              IN  registerWalk(t2, child, child, paths, i + 1)

\* registerHandler without the check for a handler already registered
registerHandlerOverwrites(t, paths, handler, filters) ==
    IF handler = Nil THEN [trie |-> t, outcome |-> HandlerNil]
    ELSE IF Len(paths) < 1 THEN [trie |-> t, outcome |-> PathNil]
    ELSE LET w == registerWalk(t, <<>>, Nil, paths, 1) IN
         IF w.panic # Nil THEN [trie |-> w.trie, outcome |-> w.panic]
         ELSE IF w.n = Nil THEN [trie |-> w.trie, outcome |-> NilDeref]
         ELSE [trie |-> [w.trie EXCEPT ![w.n] =
                            [handler |-> handler, filters |-> filters]],
               outcome |-> Ok]

\* registerHandler storing the filters before it checks for a handler
registerHandlerFiltersFirst(t, paths, handler, filters) ==
    IF handler = Nil THEN [trie |-> t, outcome |-> HandlerNil]
    ELSE IF Len(paths) < 1 THEN [trie |-> t, outcome |-> PathNil]
    ELSE LET w == registerWalk(t, <<>>, Nil, paths, 1) IN
         IF w.panic # Nil THEN [trie |-> w.trie, outcome |-> w.panic]
         ELSE IF w.n = Nil THEN [trie |-> w.trie, outcome |-> NilDeref]
         ELSE IF w.trie[w.n].handler # Nil
              THEN [trie |-> [w.trie EXCEPT ![w.n].filters = filters],
                    outcome |-> DuplicateRoute]
         ELSE [trie |-> [w.trie EXCEPT ![w.n] =
                            [handler |-> handler, filters |-> filters]],
               outcome |-> Ok]

\* registerHandler(paths, handler, filters...): the trie it leaves and how it
\* ended (Ok or the panic)
registerHandler(t, paths, handler, filters) ==
    IF handler = Nil THEN [trie |-> t, outcome |-> HandlerNil]
    ELSE IF Len(paths) < 1 THEN [trie |-> t, outcome |-> PathNil]
    ELSE LET w == registerWalk(t, <<>>, Nil, paths, 1) IN
         IF w.panic # Nil THEN [trie |-> w.trie, outcome |-> w.panic]
         ELSE IF w.n = Nil THEN [trie |-> w.trie, outcome |-> NilDeref]
         ELSE IF w.trie[w.n].handler # Nil
              THEN [trie |-> w.trie, outcome |-> DuplicateRoute]
         ELSE [trie |-> [w.trie EXCEPT ![w.n] =
                            [handler |-> handler, filters |-> filters]],
               outcome |-> Ok]

NotFound == [found |-> FALSE, node |-> <<>>]
Found(n) == [found |-> TRUE, node |-> n]

\* parseTree looking for a dynamic key before the exact one
RECURSIVE parseTreeDynamicFirst(_, _, _)
parseTreeDynamicFirst(t, owner, path) ==
    LET exact == Append(owner, path[1])
        dynamic == {Append(owner, p) : p \in
                       {k \in Children(t, owner) : IsDynamic(k)}}
        matches == IF dynamic # {} THEN dynamic
                   ELSE IF exact \in DOMAIN t THEN {exact} ELSE {}
    IN  IF matches = {} THEN {NotFound}
        ELSE IF Len(path) > 1
             THEN UNION {parseTreeDynamicFirst(t, n, Tail(path)) : n \in matches}
             ELSE {Found(n) : n \in matches}

\* parseTree without the scan for a dynamic key
RECURSIVE parseTreeExactOnly(_, _, _)
parseTreeExactOnly(t, owner, path) ==
    LET exact == Append(owner, path[1])
    IN  IF exact \notin DOMAIN t THEN {NotFound}
        ELSE IF Len(path) > 1 THEN parseTreeExactOnly(t, exact, Tail(path))
        ELSE {Found(exact)}

\* parseTree returning the node reached when a later token matches nothing
RECURSIVE parseTreeStopsEarly(_, _, _)
parseTreeStopsEarly(t, owner, path) ==
    LET exact == Append(owner, path[1])
        matches == IF exact \in DOMAIN t THEN {exact}
                   ELSE {Append(owner, p) : p \in
                            {k \in Children(t, owner) : IsDynamic(k)}}
    IN  IF matches = {} THEN {IF owner = <<>> THEN NotFound ELSE Found(owner)}
        ELSE IF Len(path) > 1
             THEN UNION {parseTreeStopsEarly(t, n, Tail(path)) : n \in matches}
             ELSE {Found(n) : n \in matches}

\* parseTree taking any child when no key equals the token
RECURSIVE parseTreeAnyChild(_, _, _)
parseTreeAnyChild(t, owner, path) ==
    LET exact == Append(owner, path[1])
        matches == IF exact \in DOMAIN t THEN {exact}
                   ELSE {Append(owner, p) : p \in Children(t, owner)}
    IN  IF matches = {} THEN {NotFound}
        ELSE IF Len(path) > 1
             THEN UNION {parseTreeAnyChild(t, n, Tail(path)) : n \in matches}
             ELSE {Found(n) : n \in matches}

\* parseTree(children, path): every result it can return, one per dynamic key
\* the range loop over the map may meet first
RECURSIVE parseTree(_, _, _)
parseTree(t, owner, path) ==
    LET exact == Append(owner, path[1])
        matches == IF exact \in DOMAIN t THEN {exact}
                   ELSE {Append(owner, p) : p \in
                            {k \in Children(t, owner) : IsDynamic(k)}}
    IN  IF matches = {} THEN {NotFound}
        ELSE IF Len(path) > 1
             THEN UNION {parseTree(t, n, Tail(path)) : n \in matches}
             ELSE {Found(n) : n \in matches}

\* findEndpoint dropping the empty tokens of the request path
findEndpointElides(t, urlPath) ==
    LET P == SelectSeq(SplitPath(urlPath), LAMBDA p : p # <<>>)
    IN  IF P = <<>> THEN {NotFound} ELSE parseTree(t, <<>>, P)

\* findEndpoint(req) for req.URL.Path = urlPath
findEndpoint(t, urlPath) == parseTree(t, <<>>, SplitPath(urlPath))

-----------------------------------------------------------------------------
(* the response sink and its buffering wrapper *)

StatusOK == 200
StatusUnauthorized == 401
StatusNotFound == 404
StatusInternalServerError == 500

\* the status codes application code writes
AppCodes == {StatusOK, StatusUnauthorized}

\* a call received by the transport's http.ResponseWriter
SinkWriteHeader(code) == [m |-> "WriteHeader", v |-> code]
SinkWrite(body) == [m |-> "Write", v |-> body]

\* the status the transport sends: that of the first WriteHeader, 200 when
\* a Write comes first, none while nothing was written
SinkStatus(sink) ==
    IF sink = <<>> THEN Nil
    ELSE IF sink[1].m = "WriteHeader" THEN sink[1].v
    ELSE StatusOK

\* the bodies the transport received, in order
SinkBodies(sink) == SelectSeq(sink, LAMBDA c : c.m = "Write")

\* the methods of the interfaces responseWrapper embeds
ResponseWriterMethods == {"Header", "Write", "WriteHeader"}
HijackerMethods == {"Hijack"}

\* the method set of *responseWrapper: its own methods and those promoted
\* from its two embedded interface fields, whatever values the fields hold
responseWrapperMethods ==
    {"WriteHeader", "Write", "flush"} \cup ResponseWriterMethods
        \cup HijackerMethods

\* v.(http.Hijacker) for a value whose type has the method set `methods`
AssertHijacker(methods) == HijackerMethods \subseteq methods

\* WriteHeader keeping the first status written, as the transport's sink does
WriteHeaderFirstWins(r, code) ==
    IF \E i \in 1..Len(r.app) : r.app[i].m = "WriteHeader" THEN r
    ELSE [r EXCEPT !.w.status = code]

\* Write passing the body on to the transport's sink as well
WriteThrough(r, body) ==
    [r EXCEPT !.w.body = body, !.sink = Append(@, SinkWrite(body))]

\* responseWrapper.WriteHeader
WriteHeader(r, code) == [r EXCEPT !.w.status = code]

\* responseWrapper.Write
Write(r, body) == [r EXCEPT !.w.body = body]

\* responseWrapper.flush
flush(r) ==
    [r EXCEPT !.sink = @ \o <<SinkWriteHeader(r.w.status), SinkWrite(r.w.body)>>,
              !.flushes = @ + 1]

-----------------------------------------------------------------------------
(* the router: construction and the registration phase *)

NoCall == [op |-> "none", pattern |-> <<>>, paths |-> <<>>, handler |-> Nil,
           outcome |-> Ok]

\* a request the transport has not handed to ServeHTTP yet
\* (hijacker: res implements http.Hijacker; asserted: what w.(http.Hijacker)
\* answered to application code)
Idle == [pc |-> "idle", path |-> <<>>, n |-> <<>>, idx |-> 0,
         w |-> [status |-> 0, body |-> <<>>, Hijacker |-> Nil],
         calls |-> <<>>, rets |-> <<>>, app |-> <<>>, sink |-> <<>>,
         flushes |-> 0, lookup |-> NotFound, end |-> Nil, escaped |-> FALSE,
         hijacker |-> FALSE, asserted |-> Nil]

\* NewDynamicRouter()
Init ==
    /\ trie = <<>>
    /\ fileServer = Nil
    /\ registered = <<>>
    /\ last = NoCall
    /\ nregs = 0
    /\ serving = FALSE
    /\ reqs = [q \in Reqs |-> Idle]

NonEmpty(paths) == SelectSeq(paths, LAMBDA p : p # <<>>)

Record(paths, handler, filters, outcome) ==
    IF outcome = Ok
    THEN (NonEmpty(paths) :> [handler |-> handler, filters |-> filters])
             @@ registered
    ELSE registered

\* r.registerHandler(paths, handler, filters...), as the package's tests call it
RegisterHandler(paths, handler, filters) ==
    /\ ~serving
    /\ nregs < MaxRegs
    /\ \E r \in {registerHandler(trie, paths, handler, filters)} :
          /\ trie' = r.trie
          /\ registered' = Record(paths, handler, filters, r.outcome)
          /\ last' = [op |-> "registerHandler", pattern |-> <<>>,
                      paths |-> paths, handler |-> handler,
                      outcome |-> r.outcome]
    /\ nregs' = nregs + 1
    /\ UNCHANGED <<fileServer, serving, reqs>>

\* r.HandleFunc(pattern, handler, filters...)
HandleFunc(pattern, handler, filters) ==
    /\ ~serving
    /\ nregs < MaxRegs
    /\ \E paths \in {SplitPath(pattern)} :
       \E r \in {registerHandler(trie, paths, handler, filters)} :
          /\ trie' = r.trie
          /\ registered' = Record(paths, handler, filters, r.outcome)
          /\ last' = [op |-> "HandleFunc", pattern |-> pattern,
                      paths |-> paths, handler |-> handler,
                      outcome |-> r.outcome]
    /\ nregs' = nregs + 1
    /\ UNCHANGED <<fileServer, serving, reqs>>

\* r.ServeStaticAt(root, mode)
ServeStaticAt ==
    /\ ~serving
    /\ fileServer = Nil
    /\ fileServer' = "fileServer"
    /\ UNCHANGED <<trie, registered, last, nregs, serving, reqs>>

Next ==
    \/ \E paths \in TokenLists, e \in Endpoints :
          RegisterHandler(paths, e.handler, e.filters)
    \/ \E pattern \in Patterns, e \in Endpoints :
          HandleFunc(pattern, e.handler, e.filters)

Spec == Init /\ [][Next]_vars

-----------------------------------------------------------------------------
(* the dispatch pipeline *)

\* the paths of the requests the transport delivers
RequestPaths == {<<Slash>> \o Join(ts) : ts \in TokenLists \ {<<>>}}

\* recovered without the forced status: the buffered status is flushed
recoveredKeepsStatus(r) ==
    [flush(r) EXCEPT !.pc = "done", !.end = "panic", !.escaped = FALSE]

\* the deferred function of ServeHTTP when recover() returns the panic value:
\* the panic stops there and ServeHTTP returns to the transport
recovered(r) ==
    [flush(WriteHeader(r, StatusInternalServerError))
        EXCEPT !.pc = "done", !.end = "panic", !.escaped = FALSE]

\* nextCallback ranging over the filters from the last to the first
nextCallbackReversed(r, node) ==
    IF r.idx < Len(node.filters)
    THEN [r EXCEPT !.pc = "filter", !.idx = @ + 1,
                   !.calls = Append(@, node.filters[Len(node.filters) - r.idx])]
    ELSE [r EXCEPT !.pc = "handler", !.calls = Append(@, node.handler)]

\* the callback ServeHTTP calls next once filter number idx returned true
nextCallback(r, node) ==
    IF r.idx < Len(node.filters)
    THEN [r EXCEPT !.pc = "filter", !.idx = @ + 1,
                   !.calls = Append(@, node.filters[r.idx + 1])]
    ELSE [r EXCEPT !.pc = "handler", !.calls = Append(@, node.handler)]

\* notFound answering without the Not Found status
notFoundKeepsStatus(r) ==
    IF fileServer = Nil
    THEN [flush(r) EXCEPT !.pc = "done", !.end = "notfound"]
    ELSE [r EXCEPT !.pc = "fallback", !.calls = Append(@, fileServer)]

\* notFound answering 404 even when a file server is configured
notFoundIgnoresFallback(r) ==
    [flush(WriteHeader(r, StatusNotFound))
        EXCEPT !.pc = "done", !.end = "notfound"]

\* the err != nil branch of ServeHTTP
notFound(r) ==
    IF fileServer = Nil
    THEN [flush(WriteHeader(r, StatusNotFound))
             EXCEPT !.pc = "done", !.end = "notfound"]
    ELSE [r EXCEPT !.pc = "fallback", !.calls = Append(@, fileServer)]

\* serveLookup answering a node without handler as a failed lookup
serveLookupNoHandler404(r, urlPath, found) ==
    LET r0 == [r EXCEPT !.path = urlPath,
                        !.w = [status |-> StatusOK, body |-> <<>>,
                               Hijacker |-> IF r.hijacker THEN "res" ELSE Nil],
                        !.lookup = found]
    IN  IF ~found.found THEN notFound(r0)
        ELSE IF trie[found.node].handler # Nil
             THEN nextCallback([r0 EXCEPT !.n = found.node], trie[found.node])
             ELSE notFound([r0 EXCEPT !.n = found.node])

\* ServeHTTP from its entry to its first call of application code, or to its
\* return when it calls none; found is what findEndpoint returned
serveLookup(r, urlPath, found) ==
    LET r0 == [r EXCEPT !.path = urlPath,
                        !.w = [status |-> StatusOK, body |-> <<>>,
                               Hijacker |-> IF r.hijacker THEN "res" ELSE Nil],
                        !.lookup = found]
    IN  IF ~found.found THEN notFound(r0)
        ELSE IF trie[found.node].handler # Nil
             THEN nextCallback([r0 EXCEPT !.n = found.node], trie[found.node])
             ELSE [r0 EXCEPT !.pc = "done", !.n = found.node,
                             !.end = "nohandler"]

\* the transport calls r.ServeHTTP(res, req) with req.URL.Path = urlPath and
\* a res that implements http.Hijacker or does not
ServeHTTP(q, urlPath, hijacker) ==
    /\ reqs[q].pc = "idle"
    /\ \E found \in findEndpoint(trie, urlPath) :
          reqs' = [reqs EXCEPT ![q] =
                      serveLookup([reqs[q] EXCEPT !.hijacker = hijacker],
                                  urlPath, found)]
    /\ serving' = TRUE
    /\ UNCHANGED <<trie, fileServer, registered, last, nregs>>

InApp(r) == r.pc \in {"filter", "handler"}

\* the running filter or handler calls w.WriteHeader(code)
AppWriteHeader(q, code) ==
    /\ InApp(reqs[q])
    /\ Len(reqs[q].app) < MaxWrites
    /\ reqs' = [reqs EXCEPT ![q] =
                   [WriteHeader(reqs[q], code)
                       EXCEPT !.app = Append(@, SinkWriteHeader(code))]]
    /\ UNCHANGED <<trie, fileServer, registered, last, nregs, serving>>

\* AppWrite on a wrapper the router shares between the dispatches in flight
AppWriteShared(q, body) ==
    /\ InApp(reqs[q])
    /\ Len(reqs[q].app) < MaxWrites
    /\ reqs' = [o \in DOMAIN reqs |->
                   IF o = q
                   THEN [Write(reqs[o], body)
                            EXCEPT !.app = Append(@, SinkWrite(body))]
                   ELSE IF InApp(reqs[o]) THEN Write(reqs[o], body)
                   ELSE reqs[o]]
    /\ UNCHANGED <<trie, fileServer, registered, last, nregs, serving>>

\* the running filter or handler calls w.Write(body)
AppWrite(q, body) ==
    /\ InApp(reqs[q])
    /\ Len(reqs[q].app) < MaxWrites
    /\ reqs' = [reqs EXCEPT ![q] =
                   [Write(reqs[q], body)
                       EXCEPT !.app = Append(@, SinkWrite(body))]]
    /\ UNCHANGED <<trie, fileServer, registered, last, nregs, serving>>

\* the running filter or handler evaluates _, ok := w.(http.Hijacker)
AppAssertHijacker(q) ==
    /\ InApp(reqs[q])
    /\ reqs[q].asserted = Nil
    /\ reqs' = [reqs EXCEPT ![q].asserted =
                   ToString(AssertHijacker(responseWrapperMethods))]
    /\ UNCHANGED <<trie, fileServer, registered, last, nregs, serving>>

\* filterReturned without the return after the flush: the chain goes on
filterReturnedGoesOn(r, node, ok) ==
    IF ~ok THEN nextCallback(flush(r), node) ELSE nextCallback(r, node)

\* ServeHTTP after the running filter returned ok
filterReturned(r, node, ok) ==
    IF ~ok
    THEN [flush(r) EXCEPT !.pc = "done", !.end = "filtered"]
    ELSE nextCallback(r, node)

\* the running filter returns ok
FilterReturn(q, ok) ==
    /\ reqs[q].pc = "filter"
    /\ reqs' = [reqs EXCEPT ![q] =
                   filterReturned([reqs[q] EXCEPT !.rets = Append(@, ToString(ok))],
                                  trie[reqs[q].n], ok)]
    /\ UNCHANGED <<trie, fileServer, registered, last, nregs, serving>>

\* handlerReturned without the flush
handlerReturnedNoFlush(r) == [r EXCEPT !.pc = "done", !.end = "handled"]

\* ServeHTTP after the handler returned
handlerReturned(r) == [flush(r) EXCEPT !.pc = "done", !.end = "handled"]

\* the handler returns
HandlerReturn(q) ==
    /\ reqs[q].pc = "handler"
    /\ reqs' = [reqs EXCEPT ![q] =
                   handlerReturned([reqs[q] EXCEPT !.rets = Append(@, "return")])]
    /\ UNCHANGED <<trie, fileServer, registered, last, nregs, serving>>

\* the running filter, handler or fallback panics with a non-nil value
Panic(q) ==
    /\ reqs[q].pc \in {"filter", "handler", "fallback"}
    /\ reqs' = [reqs EXCEPT ![q] =
                   recovered([reqs[q] EXCEPT !.rets = Append(@, "panic"),
                                             !.escaped = TRUE])]
    /\ UNCHANGED <<trie, fileServer, registered, last, nregs, serving>>

\* the fallback writes a status to res, the unwrapped sink
FallbackWriteHeader(q, code) ==
    /\ reqs[q].pc = "fallback"
    /\ Len(reqs[q].sink) < MaxWrites
    /\ reqs' = [reqs EXCEPT ![q].sink = Append(@, SinkWriteHeader(code))]
    /\ UNCHANGED <<trie, fileServer, registered, last, nregs, serving>>

\* the fallback writes a body to res, the unwrapped sink
FallbackWrite(q, body) ==
    /\ reqs[q].pc = "fallback"
    /\ Len(reqs[q].sink) < MaxWrites
    /\ reqs' = [reqs EXCEPT ![q].sink = Append(@, SinkWrite(body))]
    /\ UNCHANGED <<trie, fileServer, registered, last, nregs, serving>>

\* r.fileServer.ServeHTTP(res, req) returns
FallbackReturn(q) ==
    /\ reqs[q].pc = "fallback"
    /\ reqs' = [reqs EXCEPT ![q].pc = "done", ![q].end = "fallback",
                             ![q].rets = Append(@, "return")]
    /\ UNCHANGED <<trie, fileServer, registered, last, nregs, serving>>

\* the application: its routes are registered, then requests are served
NextServe ==
    \/ \E route \in Routes :
          HandleFunc(route.pattern, route.handler, route.filters)
    \/ ServeStaticAt
    \/ \E q \in Reqs, urlPath \in RequestPaths, hijacker \in BOOLEAN :
          ServeHTTP(q, urlPath, hijacker)
    \/ \E q \in Reqs : AppAssertHijacker(q)
    \/ \E q \in Reqs, code \in AppCodes : AppWriteHeader(q, code)
    \/ \E q \in Reqs, body \in Bodies : AppWrite(q, body)
    \/ \E q \in Reqs, ok \in BOOLEAN : FilterReturn(q, ok)
    \/ \E q \in Reqs : HandlerReturn(q)
    \/ \E q \in Reqs : Panic(q)
    \/ \E q \in Reqs, code \in {StatusOK, StatusNotFound} :
          FallbackWriteHeader(q, code)
    \/ \E q \in Reqs, body \in Bodies : FallbackWrite(q, body)
    \/ \E q \in Reqs : FallbackReturn(q)

SpecServe == Init /\ [][NextServe]_vars

-----------------------------------------------------------------------------
(* what application code wrote to the buffered sink *)

\* the last status written among the writes of log, 200 when there is none
RECURSIVE LastStatus(_)
LastStatus(log) ==
    IF log = <<>> THEN StatusOK
    ELSE IF log[Len(log)].m = "WriteHeader" THEN log[Len(log)].v
    ELSE LastStatus(SubSeq(log, 1, Len(log) - 1))

\* the last body written among the writes of log, empty when there is none
RECURSIVE LastBody(_)
LastBody(log) ==
    IF log = <<>> THEN <<>>
    ELSE IF log[Len(log)].m = "Write" THEN log[Len(log)].v
    ELSE LastBody(SubSeq(log, 1, Len(log) - 1))

Returned(r, v) == \E i \in 1..Len(r.rets) : r.rets[i] = v

\* the request was routed to a node that carries a handler
OnHandlerNode(r) ==
    r.pc # "idle" /\ r.lookup.found /\ trie[r.lookup.node].handler # Nil

-----------------------------------------------------------------------------
(* C1..C3: the dispatch pipeline, under SpecServe *)

\* C1: when a filter or the handler of the matched node panics, whatever it
\* had written to the buffered sink, the sink receives status 500 with the
\* body buffered so far, and the panic does not leave ServeHTTP.
C1_PanicYields500 ==
    \A q \in Reqs :
        LET r == reqs[q] IN
        (OnHandlerNode(r) /\ Returned(r, "panic")) =>
            /\ r.pc = "done"
            /\ ~r.escaped
            /\ SinkStatus(r.sink) = StatusInternalServerError
            /\ r.sink = <<SinkWriteHeader(StatusInternalServerError),
                          SinkWrite(LastBody(r.app))>>

\* C1's case: a handler wrote 200 and a body, then panicked
C1_Witness ==
    \E q \in Reqs :
        LET r == reqs[q] IN
        /\ OnHandlerNode(r) /\ Returned(r, "panic")
        /\ r.calls[Len(r.calls)] \in {"h1", "h2"}
        /\ r.app = <<SinkWriteHeader(StatusOK), SinkWrite(<<"p">>)>>

\* C2: once a filter has returned false, no later filter and no handler is
\* invoked for the request, and the response sent is the status and body
\* buffered up to and including that filter.
C2_FilterShortCircuits ==
    \A q \in Reqs :
        LET r == reqs[q] IN
        \A i \in 1..Len(r.rets) :
            r.rets[i] = "FALSE" =>
                /\ r.pc = "done"
                /\ Len(r.calls) = i
                /\ r.calls = SubSeq(trie[r.n].filters, 1, i)
                /\ r.sink = <<SinkWriteHeader(LastStatus(r.app)),
                              SinkWrite(LastBody(r.app))>>

\* C2's case: the first of two filters wrote 401 and returned false
C2_Witness ==
    \E q \in Reqs :
        LET r == reqs[q] IN
        /\ r.rets = <<"FALSE">>
        /\ Len(trie[r.n].filters) = 2
        /\ SinkStatus(r.sink) = StatusUnauthorized

\* C3: when lookup fails and no fallback is configured, the sink receives
\* status 404 and no filter and no handler is invoked.
C3_NotFoundIs404 ==
    \A q \in Reqs :
        LET r == reqs[q] IN
        (r.pc # "idle" /\ ~r.lookup.found /\ fileServer = Nil) =>
            /\ r.pc = "done"
            /\ r.calls = <<>>
            /\ SinkStatus(r.sink) = StatusNotFound

\* C3's case: routes are registered and a request matches none of them
C3_Witness ==
    \E q \in Reqs :
        LET r == reqs[q] IN
        /\ r.pc = "done" /\ ~r.lookup.found /\ fileServer = Nil
        /\ \E p \in DOMAIN trie : trie[p].handler # Nil

-----------------------------------------------------------------------------
(* C4..C10: registration and lookup, under Spec *)

InvalidRegistration == {HandlerNil, PathNil}
RouteConflict == {DynamicConflict, DuplicateRoute}

\* the values requests carry in place of a dynamic segment
Literals == {<<"a">>, <<"b">>, <<Colon, "y">>}

HasDynamic(P) == \E i \in 1..Len(P) : IsDynamic(P[i])

StrictPrefix(P, Q) == Len(P) < Len(Q) /\ SubSeq(Q, 1, Len(P)) = P

\* the token sequences got from pattern P by putting a literal value in
\* place of each dynamic segment
RECURSIVE Substitutions(_)
Substitutions(P) ==
    IF P = <<>> THEN {<<>>}
    ELSE {<<v>> \o rest :
            v \in (IF IsDynamic(P[1]) THEN Literals ELSE {P[1]}),
            rest \in Substitutions(Tail(P))}

\* walking P in t meets, at the level of one of its dynamic tokens, a dynamic
\* key with different text
DynClash(t, P) ==
    \E i \in 1..Len(P) :
        /\ IsDynamic(P[i])
        /\ \E m \in Children(t, SubSeq(P, 1, i - 1)) : IsDynamic(m) /\ m # P[i]

\* a dynamic token of P is already a key of t at its level
SameTextExists(t, P) ==
    \E i \in 1..Len(P) : IsDynamic(P[i]) /\ SubSeq(P, 1, i) \in DOMAIN t

\* the routes of reg resolve, in t, to a node with their own handler
Resolve(t, reg, routes) ==
    \A Q \in routes :
        \A res \in findEndpoint(t, Join(Q)) :
            res.found /\ t[res.node].handler = reg[Q].handler

\* C4: every successfully registered pattern, looked up by its non-empty
\* tokens joined with '/', resolves to a node carrying its handler, in every
\* trie reached by later successful or failed register calls.
C4_RegisteredResolves == Resolve(trie, registered, DOMAIN registered)

\* C4's case: a route of two levels and another route registered with it
C4_Witness ==
    /\ Cardinality(DOMAIN registered) = 2
    /\ \E P \in DOMAIN registered : Len(P) = 2

\* C5 as stated: a registered pattern with dynamic segments resolves to its
\* terminal node whatever literal value replaces each dynamic segment.
C5_Original ==
    \A P \in DOMAIN registered :
        HasDynamic(P) =>
            \A s \in Substitutions(P) :
                findEndpoint(trie, <<Slash>> \o Join(s)) = {Found(P)}

\* C5 amended: it does so provided no substituted value equals a key of the
\* children mapping at the level of the dynamic segment it replaces (an exact
\* match takes precedence over the dynamic child).
C5_DynamicResolves ==
    \A P \in DOMAIN registered :
        HasDynamic(P) =>
            \A s \in Substitutions(P) :
                (\A i \in 1..Len(P) :
                    IsDynamic(P[i]) =>
                        Append(SubSeq(P, 1, i - 1), s[i]) \notin DOMAIN trie)
                => findEndpoint(trie, <<Slash>> \o Join(s)) = {Found(P)}

\* C5's case: a dynamic route with a static key beside its dynamic segment,
\* and a value that is none of the keys
C5_Witness ==
    \E P \in DOMAIN registered :
        \E i \in 1..Len(P) :
            /\ IsDynamic(P[i])
            /\ \E k \in Children(trie, SubSeq(P, 1, i - 1)) : ~IsDynamic(k)
            /\ \E v \in Literals :
                  Append(SubSeq(P, 1, i - 1), v) \notin DOMAIN trie

\* C6: every children mapping of the trie, the root mapping included, holds
\* at most one key beginning with ':'.
C6_OneDynamicKey ==
    \A owner \in {<<>>} \cup DOMAIN trie :
        Cardinality({k \in Children(trie, owner) : IsDynamic(k)}) <= 1

\* C6's case: a second dynamic name was offered at a level that has one
C6_Witness ==
    /\ last.outcome = DynamicConflict
    /\ \E owner \in {<<>>} \cup DOMAIN trie :
          \E k \in Children(trie, owner) : IsDynamic(k)

\* C7 as stated: a call with a dynamic token fails with RouteConflict exactly
\* when a dynamic key with different text is met at its level; with the same
\* text the node is reused, the call succeeds and the routes below resolve.
C7_Original ==
    [][LET P == NonEmpty(last'.paths) IN
       (nregs' # nregs /\ last'.handler # Nil /\ HasDynamic(P)) =>
           /\ last'.outcome \in RouteConflict <=> DynClash(trie, P)
           /\ (SameTextExists(trie, P) /\ ~DynClash(trie, P)) =>
                   last'.outcome = Ok]_vars

\* C7 amended: a call with a handler fails with the dynamic-name conflict
\* exactly when a dynamic key with different text is met at the level of one
\* of its dynamic tokens; with the same text the node is reused (no new key
\* at that level) and the call succeeds unless its terminal node already has
\* a handler; after a success the routes below the shared dynamic node
\* resolve to their own handlers.
C7_DynamicConflict ==
    [][LET P == NonEmpty(last'.paths) IN
       (nregs' # nregs /\ last'.handler # Nil) =>
           /\ last'.outcome = DynamicConflict <=> DynClash(trie, P)
           /\ \A i \in 1..Len(P) :
                 (IsDynamic(P[i]) /\ SubSeq(P, 1, i) \in DOMAIN trie) =>
                     Children(trie', SubSeq(P, 1, i - 1))
                         = Children(trie, SubSeq(P, 1, i - 1))
           /\ ( /\ SameTextExists(trie, P)
                /\ ~DynClash(trie, P)
                /\ ~(P \in DOMAIN trie /\ trie[P].handler # Nil) ) =>
                   last'.outcome = Ok
           /\ last'.outcome = Ok =>
                   Resolve(trie', registered',
                           {Q \in DOMAIN registered' :
                               \E i \in 1..Len(P) :
                                   /\ IsDynamic(P[i])
                                   /\ Len(Q) >= i
                                   /\ SubSeq(Q, 1, i) = SubSeq(P, 1, i)})]_vars

\* C7's case: a second route registered through the dynamic node of a first
C7_Witness ==
    LET P == NonEmpty(last.paths) IN
    /\ last.outcome = Ok
    /\ \E Q \in DOMAIN registered \ {P} :
          \E i \in 1..Len(P) :
              IsDynamic(P[i]) /\ Len(Q) >= i /\ SubSeq(Q, 1, i) = SubSeq(P, 1, i)

\* C8: a call with a handler and no dynamic-name conflict fails as a
\* duplicate route exactly when the terminal node of its non-empty tokens
\* already has a handler: a registered path fails when registered again, and
\* an unregistered strict prefix or strict extension of a registered path
\* succeeds.
C8_DuplicateRoute ==
    [][LET P == NonEmpty(last'.paths) IN
       (nregs' # nregs /\ last'.handler # Nil /\ ~DynClash(trie, P)) =>
           /\ last'.outcome = DuplicateRoute
                  <=> (P \in DOMAIN trie /\ trie[P].handler # Nil)
           /\ P \in DOMAIN registered => last'.outcome = DuplicateRoute
           /\ ( /\ P # <<>>
                /\ P \notin DOMAIN registered
                /\ \E Q \in DOMAIN registered :
                      StrictPrefix(P, Q) \/ StrictPrefix(Q, P) ) =>
                   last'.outcome = Ok]_vars

\* C8's case: a strict prefix of a registered path was registered
C8_Witness ==
    /\ last.outcome = Ok
    /\ \E Q \in DOMAIN registered : StrictPrefix(NonEmpty(last.paths), Q)

\* C9: a call with no handler, or whose tokens are all empty, fails with
\* InvalidRegistration and leaves the trie as it was.
C9_Original ==
    [][(nregs' # nregs /\ (last'.handler = Nil \/ NonEmpty(last'.paths) = <<>>))
          => (last'.outcome \in InvalidRegistration /\ trie' = trie)]_vars

\* C10: a register call keeps every node at its key path, keeps the handler
\* and the filters of every node that had a handler, and changes a handler
\* only from absent to present.
C10_TrieOnlyGrows ==
    [][\A p \in DOMAIN trie :
          /\ p \in DOMAIN trie'
          /\ trie[p].handler # Nil => trie'[p] = trie[p]
          /\ trie'[p].handler # trie[p].handler =>
                 (trie[p].handler = Nil /\ trie'[p].handler # Nil)]_vars

\* C10's case: a call ended on a node that already had a handler
C10_Witness ==
    /\ last.outcome = DuplicateRoute
    /\ \E p \in DOMAIN trie : trie[p].handler # Nil /\ trie[p].filters # <<>>

-----------------------------------------------------------------------------
(* C11..C16: the dispatch pipeline, under SpecServe *)

\* the fallback was called for the request
FallbackCalled(r) == \E i \in 1..Len(r.calls) : r.calls[i] = "fileServer"

\* the status writes the transport's sink received
StatusWrites(sink) == {i \in 1..Len(sink) : sink[i].m = "WriteHeader"}

\* C11: in every dispatch the buffering adapter is flushed at most once:
\* exactly once when the dispatch ends on the 404 path, after a filter
\* returned false, after the handler returned, or after a panic; not at all
\* on a node without handler and after a fallback that returned; and never
\* before the dispatch ends.
C11_FlushedAtMostOnce ==
    \A q \in Reqs :
        LET r == reqs[q]
            once == \/ ~r.lookup.found /\ fileServer = Nil
                    \/ Returned(r, "FALSE")
                    \/ r.lookup.found /\ Returned(r, "return")
                    \/ Returned(r, "panic")
            never == \/ r.lookup.found /\ trie[r.lookup.node].handler = Nil
                     \/ /\ ~r.lookup.found /\ fileServer # Nil
                        /\ Returned(r, "return")
        IN  /\ r.flushes <= 1
            /\ r.pc # "done" => r.flushes = 0
            /\ r.pc = "done" =>
                  /\ once # never
                  /\ r.flushes = IF once THEN 1 ELSE 0
                  /\ Len(r.sink) >= 2 * r.flushes

\* C11's case: the handler panicked after both its filters returned true
C11_Witness ==
    \E q \in Reqs :
        reqs[q].rets = <<"TRUE", "TRUE", "panic">> /\ reqs[q].flushes = 1

\* C12: when the fallback panics, also after it wrote a status to the
\* original sink, the status observed on that sink is 500 and the sink
\* received one status write.
C12_Original ==
    \A q \in Reqs :
        LET r == reqs[q] IN
        (FallbackCalled(r) /\ Returned(r, "panic")) =>
            /\ SinkStatus(r.sink) = StatusInternalServerError
            /\ Cardinality(StatusWrites(r.sink)) = 1

\* C13: the fallback is called exactly when lookup failed and a fallback is
\* configured; it is then the only callback called, once, and it is given
\* the original sink: the buffering adapter holds nothing of what it writes
\* and, unless it panics, flushes nothing to the sink.
C13_FallbackBypassesWrapper ==
    \A q \in Reqs :
        LET r == reqs[q] IN
        r.pc # "idle" =>
            /\ FallbackCalled(r) <=> (~r.lookup.found /\ fileServer # Nil)
            /\ FallbackCalled(r) =>
                  /\ r.calls = <<"fileServer">>
                  /\ r.app = <<>>
                  /\ r.w.body = <<>>
                  /\ ~Returned(r, "panic") =>
                        r.w.status = StatusOK /\ r.flushes = 0
                  /\ Returned(r, "return") =>
                        r.pc = "done" /\ r.rets = <<"return">>

\* C13's case: routes are registered, lookup failed and the fallback wrote
\* its response and returned
C13_Witness ==
    \E q \in Reqs :
        LET r == reqs[q] IN
        /\ FallbackCalled(r) /\ Returned(r, "return")
        /\ Len(r.sink) = 2
        /\ \E p \in DOMAIN trie : trie[p].handler # Nil

\* C14: when lookup ends on a node without handler, no filter, handler or
\* fallback is called, nothing is flushed and the sink receives neither a
\* status nor a body (so no 404 either).
C14_NoHandlerIsSilent ==
    \A q \in Reqs :
        LET r == reqs[q] IN
        (r.pc # "idle" /\ r.lookup.found /\ trie[r.lookup.node].handler = Nil) =>
            /\ r.pc = "done"
            /\ r.calls = <<>>
            /\ r.flushes = 0
            /\ r.sink = <<>>

\* C14's case: the request ended on an intermediate node while a fallback
\* was configured
C14_Witness ==
    \E q \in Reqs :
        LET r == reqs[q] IN
        /\ r.pc = "done" /\ r.lookup.found
        /\ trie[r.lookup.node].handler = Nil
        /\ fileServer # Nil

\* C15: the buffered sink answers the hijack capability check positively
\* exactly when the sink supplied by the transport supports hijacking.
C15_Original ==
    \A q \in Reqs :
        LET r == reqs[q] IN
        r.asserted # Nil => (r.asserted = "TRUE" <=> r.hijacker)

\* C16: a dispatch to a route registered with filters f1..fn calls f1..fn in
\* that order, each at most once, then the handler, once; each is called only
\* after all before it returned true, and while they run nothing has reached
\* the transport's sink (they write to the buffered sink).
C16_FiltersInOrder ==
    \A q \in Reqs :
        LET r == reqs[q] IN
        OnHandlerNode(r) =>
            LET chain == registered[r.n].filters \o <<registered[r.n].handler>>
            IN  /\ r.n = r.lookup.node
                /\ Len(r.calls) \in 1..Len(chain)
                /\ r.calls = SubSeq(chain, 1, Len(r.calls))
                /\ \A i \in 1..(Len(r.calls) - 1) : r.rets[i] = "TRUE"
                /\ Len(r.rets) \in {Len(r.calls) - 1, Len(r.calls)}
                /\ InApp(r) => (r.sink = <<>> /\ Len(r.rets) = Len(r.calls) - 1)

\* C16's case: both filters of a route returned true and its handler runs
C16_Witness ==
    \E q \in Reqs :
        /\ reqs[q].calls = <<"f1", "f2", "h2">>
        /\ reqs[q].rets = <<"TRUE", "TRUE">>

-----------------------------------------------------------------------------
(* lookups of request paths in the tries of a set of routes *)

\* static and dynamic routes that share levels
LookupRoutes == {<<Slash, "a">>,
                 <<Slash, "b">>,
                 <<Slash, "a", Slash, "b">>,
                 <<Slash, "a", Slash, Colon, "x">>,
                 <<Slash, Colon, "x">>,
                 <<Slash, Colon, "x", Slash, "a">>,
                 <<Slash, Colon, "y", Slash, "b">>}

\* routes are registered, then findEndpoint is applied to a request path
NextLookup ==
    \/ \E pattern \in LookupRoutes : HandleFunc(pattern, "h1", <<>>)
    \/ \E q \in Reqs, urlPath \in RequestPaths : ServeHTTP(q, urlPath, FALSE)

SpecLookup == Init /\ [][NextLookup]_vars

\* no key of t is dynamic
StaticOnly(t) == \A p \in DOMAIN t : ~HasDynamic(p)

\* the children maps of t
Maps(t) == {<<>>} \cup DOMAIN t

-----------------------------------------------------------------------------
(* C17, C19, C20: tokenization and lookup, under SpecLookup *)

\* C17: for every trie and every request path p that does not end in '/',
\* lookup of p followed by '/' returns what lookup of p returns (checked for
\* every request served, whether its path is p or p followed by '/').
C17_TrailingSlash ==
    \A q \in Reqs :
        LET r == reqs[q]
            p == IF r.path # <<>> /\ r.path[Len(r.path)] = Slash
                 THEN SubSeq(r.path, 1, Len(r.path) - 1) ELSE r.path
        IN  (r.pc # "idle" /\ (p = <<>> \/ p[Len(p)] # Slash)) =>
                /\ findEndpoint(trie, Append(p, Slash)) = findEndpoint(trie, p)
                /\ r.lookup \in findEndpoint(trie, p)

\* C17's case: a request path with a trailing slash resolved to a route
C17_Witness ==
    \E q \in Reqs :
        LET r == reqs[q] IN
        /\ r.pc # "idle"
        /\ Len(r.path) > 1 /\ r.path[Len(r.path)] = Slash
        /\ r.path[Len(r.path) - 1] # Slash
        /\ r.lookup.found
        /\ trie[r.lookup.node].handler # Nil

\* C19: a request path whose tokens include an empty one never resolves to
\* what the path with the empty tokens removed resolves to, nor to the node
\* named by its non-empty tokens; in a trie of static keys only it is
\* NotFound.
C19_LookupKeepsEmpty ==
    \A q \in Reqs :
        LET r == reqs[q]
            T == SplitPath(r.path)
            P == NonEmpty(T)
        IN  (r.pc # "idle" /\ T # P) =>
                /\ r.lookup.found =>
                      /\ r.lookup.node # P
                      /\ P # <<>> => r.lookup \notin parseTree(trie, <<>>, P)
                /\ StaticOnly(trie) => ~r.lookup.found

\* C19's case: the path without its empty token is a registered route, and
\* the path with it resolved through a dynamic node
C19_Witness ==
    \E q \in Reqs :
        LET r == reqs[q]
            T == SplitPath(r.path)
        IN  /\ r.pc # "idle"
            /\ T # NonEmpty(T)
            /\ NonEmpty(T) \in DOMAIN registered
            /\ r.lookup.found

\* C20: at every level, lookup of a token descends into the child whose key
\* equals the token when there is one, also beside a dynamic child; into
\* the dynamic child only when no key equals the token; and is NotFound
\* only when there is neither (checked for the tokens of every request
\* served, at every children map of the trie).
C20_ExactFirst ==
    \A q \in Reqs :
        LET r == reqs[q]
            T == SplitPath(r.path)
        IN  r.pc # "idle" =>
            /\ r.lookup \in parseTree(trie, <<>>, T)
            /\ \A owner \in Maps(trie) : \A i \in 1..Len(T) :
                  LET exact == Append(owner, T[i])
                      dyn == {Append(owner, k) : k \in
                                 {m \in Children(trie, owner) : IsDynamic(m)}}
                      chosen == IF exact \in DOMAIN trie THEN {exact} ELSE dyn
                      rest == SubSeq(T, i + 1, Len(T))
                  IN  /\ parseTree(trie, owner, <<T[i]>>)
                             = IF chosen = {} THEN {NotFound}
                               ELSE {Found(n) : n \in chosen}
                      /\ rest # <<>> =>
                             parseTree(trie, owner, <<T[i]>> \o rest)
                                 = IF chosen = {} THEN {NotFound}
                                   ELSE UNION {parseTree(trie, n, rest) :
                                                  n \in chosen}

\* C20's case: the first token of a request equals a static key of the root
\* map, which also holds a dynamic key, and lookup took the static child
C20_Witness ==
    \E q \in Reqs :
        LET r == reqs[q]
            T == SplitPath(r.path)
        IN  /\ r.pc # "idle"
            /\ ~IsDynamic(T[1]) /\ <<T[1]>> \in DOMAIN trie
            /\ \E m \in Children(trie, <<>>) : IsDynamic(m)
            /\ r.lookup.found /\ r.lookup.node[1] = T[1]

-----------------------------------------------------------------------------
(* C18: registration of empty tokens, under Spec *)

\* the outcome of a register call as success, conflict or invalid call
OutcomeClass(outcome) ==
    IF outcome = Ok THEN "success"
    ELSE IF outcome \in RouteConflict THEN "conflict"
    ELSE "invalid"

\* C18: a register call whose tokens include empty ones leaves the trie that
\* the call with the empty tokens removed leaves, and ends like it (success,
\* conflict or invalid call); no node is ever keyed by the empty string.
C18_EmptyTokensElided ==
    [][LET P == NonEmpty(last'.paths)
           f == IF last'.outcome = Ok THEN registered'[P].filters ELSE <<>>
           e == registerHandler(trie, P, last'.handler, f)
       IN  /\ (nregs' # nregs /\ P # last'.paths) =>
                  /\ trie' = e.trie
                  /\ OutcomeClass(last'.outcome) = OutcomeClass(e.outcome)
                  /\ last'.outcome = Ok =>
                         (P \in DOMAIN trie' /\ trie'[P].handler = last'.handler)
           /\ \A p \in DOMAIN trie' : \A i \in 1..Len(p) : p[i] # <<>>]_vars

\* C18's case: a call with an empty and a non-empty token installed a route
C18_Witness ==
    /\ last.outcome = Ok
    /\ Len(last.paths) = 2
    /\ Len(NonEmpty(last.paths)) = 1

-----------------------------------------------------------------------------
(* C21, C22, C28: tokenization and lookup, under SpecLookup *)

\* C21: in every trie reached by registration, lookup of a request path has
\* one result, the same node or the same NotFound, whichever dynamic key
\* the range over the children map meets first at any level.
C21_LookupDeterministic ==
    \A q \in Reqs :
        LET r == reqs[q] IN
        r.pc # "idle" =>
            /\ findEndpoint(trie, r.path) = {r.lookup}
            /\ \A owner \in Maps(trie) :
                  Cardinality(parseTree(trie, owner, SplitPath(r.path))) = 1

\* C21's case: a second dynamic name was refused at a level, and a request
\* token that equals no key resolved through the dynamic key of that level
C21_Witness ==
    \E q \in Reqs :
        LET r == reqs[q]
            T == SplitPath(r.path)
        IN  /\ r.pc # "idle" /\ r.lookup.found
            /\ last.outcome = DynamicConflict
            /\ \E i \in 1..Len(T) : r.lookup.node[i] # T[i]

\* s without one leading '/' and then without one trailing '/'
Stripped(s) ==
    LET a == IF s # <<>> /\ s[1] = Slash THEN SubSeq(s, 2, Len(s)) ELSE s
    IN  IF a # <<>> /\ a[Len(a)] = Slash THEN SubSeq(a, 1, Len(a) - 1) ELSE a

\* T is what splitting Stripped(s) on '/' gives: one token more than there
\* are slashes, none holding a slash, and Stripped(s) when joined with '/'
Tokenizes(s, T) ==
    /\ Len(T) >= 1
    /\ Len(T) = 1 + Cardinality({i \in 1..Len(Stripped(s)) :
                                    Stripped(s)[i] = Slash})
    /\ \A i \in 1..Len(T) : \A j \in 1..Len(T[i]) : T[i][j] # Slash
    /\ Join(T) = Stripped(s)
    /\ s \in {<<>>, <<Slash>>} => T = << <<>> >>

\* C22: the tokenizer removes one leading and one trailing '/' when present
\* and splits the rest on '/': the result is never empty, "" and "/" give
\* the single token "", other slashes give empty tokens, and the tokens
\* joined with '/' are the stripped string (for every pattern registered
\* with HandleFunc and the path of every request served).
C22_SplitPathContract ==
    /\ last.op = "HandleFunc" => Tokenizes(last.pattern, last.paths)
    /\ \A q \in Reqs :
          reqs[q].pc # "idle" =>
              Tokenizes(reqs[q].path, SplitPath(reqs[q].path))

\* C22's case: a request path with a second leading slash, so an empty token
\* before a non-empty one
C22_Witness ==
    \E q \in Reqs :
        LET T == SplitPath(reqs[q].path) IN
        /\ reqs[q].pc # "idle"
        /\ Len(T) = 2 /\ T[1] = <<>> /\ T[2] # <<>>

\* C28: when lookup of a request path returns a node, the node is a node of
\* the trie at the depth of the number of request tokens, and at each level
\* its key is the request token, or a dynamic key while no key of that
\* level equals the token.
C28_LookupSound ==
    \A q \in Reqs :
        LET r == reqs[q]
            T == SplitPath(r.path)
            n == r.lookup.node
        IN  (r.pc # "idle" /\ r.lookup.found) =>
                /\ n \in DOMAIN trie
                /\ Len(n) = Len(T)
                /\ \A i \in 1..Len(n) :
                      \/ n[i] = T[i]
                      \/ /\ IsDynamic(n[i])
                         /\ Append(SubSeq(n, 1, i - 1), T[i]) \notin DOMAIN trie

\* C28's case: a request of two tokens resolved through a dynamic key that
\* is not its token
C28_Witness ==
    \E q \in Reqs :
        LET r == reqs[q]
            T == SplitPath(r.path)
        IN  /\ r.pc # "idle" /\ r.lookup.found
            /\ Len(T) = 2
            /\ \E i \in 1..2 : r.lookup.node[i] # T[i]

-----------------------------------------------------------------------------
(* C24..C26: what the buffered sink transmits, under SpecServe *)

\* C24: while the filters or the handler of a matched node run, nothing has
\* reached the transport's sink: each of their status and body writes is
\* only buffered, and the first write to the sink is the flush, in the step
\* in which the chain returned, was cut short or panicked.
C24_BufferedUntilFlush ==
    [][\A q \in Reqs :
          LET r == reqs[q]
              r2 == reqs'[q]
          IN  InApp(r) =>
                  /\ r.sink = <<>> /\ r.flushes = 0
                  /\ r2.app # r.app => (InApp(r2) /\ r2.sink = <<>>)
                  /\ InApp(r2) => r2.sink = <<>>
                  /\ r2.sink # <<>> =>
                        /\ r2.pc = "done"
                        /\ r2.flushes = 1
                        /\ Len(r2.rets) = Len(r.rets) + 1
                        /\ r2.rets[Len(r2.rets)] \in {"FALSE", "return", "panic"}
                        /\ r2.sink = <<SinkWriteHeader(r2.w.status),
                                       SinkWrite(r2.w.body)>>]_vars

\* C24's case: a handler runs after writing a status and a body
C24_Witness ==
    \E q \in Reqs :
        LET r == reqs[q] IN
        /\ r.pc = "handler"
        /\ r.app = <<SinkWriteHeader(StatusUnauthorized), SinkWrite(<<"p">>)>>
        /\ r.sink = <<>>

\* C25: when the filters and the handler of the matched node all return
\* without a panic, the one status the sink receives is the last status
\* they wrote to the buffered sink, and 200 when they wrote none.
C25_LastStatusFlushed ==
    \A q \in Reqs :
        LET r == reqs[q] IN
        (OnHandlerNode(r) /\ r.pc = "done" /\ ~Returned(r, "panic")) =>
            /\ r.sink[1] = SinkWriteHeader(LastStatus(r.app))
            /\ StatusWrites(r.sink) = {1}
            /\ (\A i \in 1..Len(r.app) : r.app[i].m # "WriteHeader") =>
                   SinkStatus(r.sink) = StatusOK

\* C25's case: the handler wrote 200, then 401, and returned
C25_Witness ==
    \E q \in Reqs :
        LET r == reqs[q] IN
        /\ Returned(r, "return")
        /\ r.app = <<SinkWriteHeader(StatusOK),
                     SinkWriteHeader(StatusUnauthorized)>>
        /\ SinkStatus(r.sink) = StatusUnauthorized

\* the bytes of the body writes of log, in the order written
RECURSIVE Bytes(_)
Bytes(log) ==
    IF log = <<>> THEN <<>>
    ELSE IF log[1].m = "Write" THEN log[1].v \o Bytes(Tail(log))
    ELSE Bytes(Tail(log))

\* C26: the body transmitted at flush is the concatenation, in the order
\* written, of every body written to the buffered sink during the request.
C26_Original ==
    \A q \in Reqs :
        LET r == reqs[q] IN
        (OnHandlerNode(r) /\ r.pc = "done") => Bytes(r.sink) = Bytes(r.app)

-----------------------------------------------------------------------------
(* C27: failed registration, under Spec *)

\* C27: a register call that fails (no handler, no usable token, a second
\* dynamic name or a duplicate route) leaves the trie as it was: no node
\* created for a prefix of its tokens, no handler or filters changed.
C27_FailedCallKeepsTrie ==
    [][(nregs' # nregs /\ last'.outcome # Ok) =>
           /\ trie' = trie
           /\ registered' = registered
           /\ \A i \in 1..Len(NonEmpty(last'.paths)) :
                 SubSeq(NonEmpty(last'.paths), 1, i) \in DOMAIN trie'
                     => SubSeq(NonEmpty(last'.paths), 1, i) \in DOMAIN trie]_vars

\* C27's case: a call of two tokens was refused for its dynamic name
C27_Witness ==
    /\ last.outcome = DynamicConflict
    /\ Len(NonEmpty(last.paths)) = 2
    /\ NonEmpty(last.paths) \notin DOMAIN trie

-----------------------------------------------------------------------------
(* dispatches in flight together *)

\* the requests the transport hands to ServeHTTP on two goroutines
Clients == {"r1", "r2"}

\* NewDynamicRouter(), two requests to come
InitConcurrent ==
    /\ trie = <<>>
    /\ fileServer = Nil
    /\ registered = <<>>
    /\ last = NoCall
    /\ nregs = 0
    /\ serving = FALSE
    /\ reqs = [q \in Clients |-> Idle]

\* the paths of the two requests
ConcurrentPaths == {<<Slash, "a">>, <<Slash, "a", Slash, "a">>}

\* the routes are registered, then the steps of the two dispatches interleave
NextConcurrent ==
    \/ \E route \in Routes :
          HandleFunc(route.pattern, route.handler, route.filters)
    \/ \E q \in Clients, urlPath \in ConcurrentPaths :
          ServeHTTP(q, urlPath, FALSE)
    \/ \E q \in Clients : AppWriteHeader(q, StatusUnauthorized)
    \/ \E q \in Clients : AppWrite(q, <<"p">>)
    \/ \E q \in Clients, ok \in BOOLEAN : FilterReturn(q, ok)
    \/ \E q \in Clients : HandlerReturn(q)
    \/ \E q \in Clients : Panic(q)

SpecConcurrent == InitConcurrent /\ [][NextConcurrent]_vars

\* what the sink of a finished dispatch holds when the request is served
\* alone: a function of its path, the trie and what its own callbacks did
Alone(r, t) ==
    IF ~r.lookup.found
    THEN <<SinkWriteHeader(StatusNotFound), SinkWrite(<<>>)>>
    ELSE IF t[r.lookup.node].handler = Nil THEN <<>>
    ELSE <<SinkWriteHeader(IF Returned(r, "panic")
                           THEN StatusInternalServerError
                           ELSE LastStatus(r.app)),
           SinkWrite(LastBody(r.app))>>

-----------------------------------------------------------------------------
(* C23: concurrent dispatches, under SpecConcurrent *)

\* C23: once requests are served, no step of any dispatch changes the trie;
\* a step of one dispatch (a write, a return, a panic, a 404) leaves the
\* state of the other as it is; and the lookup and the response of every
\* finished dispatch are those of the request served alone.
C23_DispatchesIsolated ==
    [][/\ serving => (trie' = trie /\ registered' = registered)
       /\ \A q \in Clients :
             /\ reqs'[q] # reqs[q] =>
                    \A o \in Clients \ {q} : reqs'[o] = reqs[o]
             /\ reqs'[q].pc # "idle" =>
                    reqs'[q].lookup \in findEndpoint(trie', reqs'[q].path)
             /\ reqs'[q].pc = "done" =>
                    reqs'[q].sink = Alone(reqs'[q], trie')]_vars

\* C23's case: one dispatch wrote and ended in a panic, and the handler of
\* the other runs with its own writes buffered
C23_Witness ==
    /\ reqs["r1"].pc = "handler" /\ reqs["r1"].app # <<>>
    /\ reqs["r2"].pc = "done" /\ Returned(reqs["r2"], "panic")
    /\ reqs["r2"].app # <<>>

====
